---- MODULE Spec2Model ----
(***************************************************************************)
(* Bob's swap driver: swap/src/protocol/bob/swap.rs.                       *)
(*                                                                         *)
(* run_until_internal is modelled as a process whose position (pc) is the  *)
(* await point it is suspended at.  Every collaborator call (event loop,   *)
(* wallets, timelock oracle, database) is one step; its outcome is chosen  *)
(* by the environment.  A process stop (crash) can happen at any await     *)
(* point; the caller then re-invokes run_until with the state last written *)
(* to the database.                                                        *)
(***************************************************************************)
EXTENDS Naturals, Sequences, FiniteSets, TLC

VARIABLES
    state,      \* the `state` argument of the current run_until_internal call
    next,       \* the new state a transition has built and not yet stored
    pc,         \* await point the driver is suspended at
    step,       \* index of the next step of negotiate (0 outside negotiate)
    target,     \* is_target_state, by name
    result,     \* "none" while running, "ok" / "err" once the driver returned
    db,         \* the states insert_latest_state appended for this swap
    visited,    \* states the current driver run was invoked with, in order
    log,        \* collaborator calls completed in the current driver run
    timelock,   \* ExpiredTimelocks as the chain has it
    txCancel,   \* whether the cancel transaction is on chain
    onchain,    \* how often each on-chain action succeeded
    base,       \* length of db when the current driver run began
    crashes,    \* process stops so far
    start,      \* the swap as handed to the first driver run
    mode,       \* "single", or "ref" / "replay" for the two-run comparison
    script,     \* answers of the environment, remembered in "ref"/"replay"
    refResult   \* outcome of the uninterrupted run ("ref")

vars == <<state, next, pc, step, target, result, db, visited, log, timelock,
          txCancel, onchain, base, crashes, start, mode, script, refResult>>

----------------------------------------------------------------------------
(* Bounds *)

MaxCrashes == 2

----------------------------------------------------------------------------
(* BobState, by tag *)

States == {"Started", "Negotiated", "BtcLocked", "XmrLocked", "EncSigSent",
           "BtcRedeemed", "CancelTimelockExpired", "BtcCancelled",
           "BtcRefunded", "BtcPunished", "XmrRedeemed", "SafelyAborted"}

PostLock == States \ {"Started", "Negotiated", "SafelyAborted"}

ExpiredTimelocks == {"None", "Cancel", "Punish"}

Rank(t) == CASE t = "None" -> 0 [] t = "Cancel" -> 1 [] t = "Punish" -> 2

is_complete(s) == s \in {"BtcRefunded", "XmrRedeemed", "BtcPunished", "SafelyAborted"}

is_btc_locked(s) == s = "BtcLocked"

is_xmr_locked(s) == s = "XmrLocked"

is_encsig_sent(s) == s = "EncSigSent"

Targets == {"is_complete", "is_btc_locked", "is_xmr_locked", "is_encsig_sent"}

is_target_state(t, s) ==
    CASE t = "is_complete"    -> is_complete(s)
      [] t = "is_btc_locked"  -> is_btc_locked(s)
      [] t = "is_xmr_locked"  -> is_xmr_locked(s)
      [] t = "is_encsig_sent" -> is_encsig_sent(s)

----------------------------------------------------------------------------
(* Collaborator calls *)

\* negotiate, in the order of its awaits
\* negotiate with the round-1 message sent before the round-0 message of the
\* counterparty is validated
NegotiateOrder_send_before_validation ==
    <<"request_amounts", "send_message0", "recv_message0", "send_message1",
      "state0.receive", "recv_message1", "state1.receive", "send_message2">>

NegotiateOrder == <<"request_amounts", "send_message0", "recv_message0",
                    "state0.receive", "send_message1", "recv_message1",
                    "state1.receive", "send_message2">>

OnChainOps == {"lock_btc", "submit_tx_cancel", "refund_btc", "claim_xmr"}

\* the four select! races
Races == {"select_msg2", "select_xmr_lock", "select_enc_sig", "select_redeem"}

\* A question put to the environment: the state being processed, the call or
\* race, and whether the chain already holds what the call is about (an
\* on-chain action repeated after it succeeded, a look-up of a transaction
\* that exists).
Key(op) == <<state, op,
             CASE op \in OnChainOps -> onchain[op] > 0
               [] op = "check_for_tx_cancel" -> txCancel
               [] OTHER -> FALSE>>

\* script holds the <<question, answer>> pairs given so far
Asked(k) == \E e \in script : e[1] = k

\* In "single" mode every answer is free.  In "ref"/"replay" mode the first
\* answer to a question is remembered and given again: the external events of
\* the two runs are the same.
Answers(k, v) == mode = "single" \/ ~Asked(k) \/ <<k, v>> \in script

Remember(k, v) == IF mode = "single" THEN script ELSE script \cup {<<k, v>>}

\* the timelock oracle reports the chain's status, which only moves forward;
\* a remembered answer is given again
OracleAnswers(k, v) ==
    IF mode # "single" /\ Asked(k)
    THEN <<k, v>> \in script
    ELSE IF v = "err" THEN TRUE ELSE Rank(v) >= Rank(timelock)

\* a completed call: what was called, how it ended, the state being processed
\* and the new state built so far
Logged(op, v) == Append(log, [op |-> op, v |-> v, st |-> state, new |-> next])

\* a fallible collaborator call `op` that completed with v ("ok" / "err")
Call(op, v) ==
    /\ Answers(Key(op), v)
    /\ script' = Remember(Key(op), v)
    /\ log' = Logged(op, v)

\* `?` on an Err: the driver returns the error
Fail == /\ result' = "err"
        /\ pc' = "done"

\* the race `r` ended with v: "ok" / "err" of the progress leg, or "expiry"
Race(r, v) ==
    /\ Answers(Key(r), v)
    /\ script' = Remember(Key(r), v)

\* wait_for_cancel_timelock_to_expire completed: the chain is past the cancel
\* timelock
Expired(t) == IF t = "None" THEN "Cancel" ELSE t

Zero == [o \in OnChainOps |-> 0]

Done(o) == [onchain EXCEPT ![o] = @ + 1]

InitMode(m) ==
    /\ state \in States
    /\ target \in (IF m = "single" THEN Targets ELSE {"is_complete"})
    /\ timelock \in ExpiredTimelocks
    /\ txCancel \in (IF state \in PostLock /\ timelock # "None"
                     THEN BOOLEAN ELSE {FALSE})
    /\ next = "none"
    /\ pc = "entry"
    /\ step = 0
    /\ result = "none"
    /\ db = <<>>
    /\ visited = <<state>>
    /\ log = <<>>
    /\ onchain = Zero
    /\ base = 0
    /\ crashes = 0
    /\ start = [state |-> state, timelock |-> timelock, txCancel |-> txCancel]
    /\ mode = m
    /\ script = {}
    /\ refResult = "none"

Init == InitMode("single")

----------------------------------------------------------------------------
(* run_until_internal *)

\* frame of a step inside a transition: the driver's arguments, the database
\* and the caller's bookkeeping stay as they are
Inside == <<state, target, db, visited, base, crashes, start, mode, refResult>>

\* first await point of the match arm of a state that is not terminal
FirstAwait(s) ==
    CASE s \in {"Started", "Negotiated"}       -> "dial"
      [] s = "BtcLocked"                       -> "current_epoch"
      [] s \in {"XmrLocked", "EncSigSent", "BtcCancelled"} -> "expired_timelock"
      [] s = "BtcRedeemed"                     -> "claim_xmr"
      [] s = "CancelTimelockExpired"           -> "check_for_tx_cancel"

\* the match with BtcCancelled among the arms that return Ok(state)
run_until_internal_cancelled_returns ==
    /\ pc = "entry"
    /\ IF \/ is_target_state(target, state)
          \/ is_complete(state)
          \/ state = "BtcCancelled"
       THEN /\ result' = "ok"
            /\ pc' = "done"
       ELSE /\ pc' = FirstAwait(state)
            /\ UNCHANGED result
    /\ UNCHANGED <<next, step, log, timelock, txCancel, onchain, script>>
    /\ UNCHANGED Inside

\* the match without the target check in front of it
run_until_internal_no_target_check ==
    /\ pc = "entry"
    /\ IF is_complete(state)
       THEN /\ result' = "ok"
            /\ pc' = "done"
       ELSE /\ pc' = FirstAwait(state)
            /\ UNCHANGED result
    /\ UNCHANGED <<next, step, log, timelock, txCancel, onchain, script>>
    /\ UNCHANGED Inside

\* lines 78-82 and 347-351: the target check, then the match on the state
run_until_internal ==
    /\ pc = "entry"
    /\ IF is_target_state(target, state) \/ is_complete(state)
       THEN /\ result' = "ok"
            /\ pc' = "done"
       ELSE /\ pc' = FirstAwait(state)
            /\ UNCHANGED result
    /\ UNCHANGED <<next, step, log, timelock, txCancel, onchain, script>>
    /\ UNCHANGED Inside

\* await point that follows a successful dial, by state
AfterDial(s) ==
    CASE s = "Started"    -> "negotiate"
      [] s = "Negotiated" -> "lock_btc"
      [] s = "BtcLocked"  -> "block_height"
      [] s = "XmrLocked"  -> "select_enc_sig"

\* dial with its result ignored before the BTC lock
dial_unchecked_before_lock ==
    /\ pc = "dial"
    /\ \E v \in {"ok", "err"} :
        /\ Call("dial", v)
        /\ IF v = "ok" \/ state = "Negotiated"
           THEN /\ pc' = AfterDial(state)
                /\ step' = IF state = "Started" THEN 1 ELSE 0
                /\ UNCHANGED result
           ELSE Fail /\ UNCHANGED step
    /\ UNCHANGED <<next, timelock, txCancel, onchain>>
    /\ UNCHANGED Inside

\* event_loop_handle.dial().await? (lines 84, 112, 137, 200)
dial ==
    /\ pc = "dial"
    /\ \E v \in {"ok", "err"} :
        /\ Call("dial", v)
        /\ IF v = "ok"
           THEN /\ pc' = AfterDial(state)
                /\ step' = IF state = "Started" THEN 1 ELSE 0
                /\ UNCHANGED result
           ELSE Fail /\ UNCHANGED step
    /\ UNCHANGED <<next, timelock, txCancel, onchain>>
    /\ UNCHANGED Inside

\* negotiate without the `?` on state1.receive(msg1): an invalid round-1
\* message is used as if it had been valid
negotiate_unchecked_receive ==
    /\ pc = "negotiate"
    /\ \E v \in {"ok", "err"} :
        /\ Call(NegotiateOrder[step], v)
        /\ IF v = "err" /\ NegotiateOrder[step] # "state1.receive"
           THEN Fail /\ UNCHANGED <<step, next>>
           ELSE IF step < Len(NegotiateOrder)
                THEN /\ step' = step + 1
                     /\ UNCHANGED <<pc, result, next>>
                ELSE /\ step' = 0
                     /\ next' = "Negotiated"
                     /\ pc' = "insert_latest_state"
                     /\ UNCHANGED result
    /\ UNCHANGED <<timelock, txCancel, onchain>>
    /\ UNCHANGED Inside

\* negotiate (lines 355-379): one await after the other, `?` on each
negotiate ==
    /\ pc = "negotiate"
    /\ \E v \in {"ok", "err"} :
        /\ Call(NegotiateOrder[step], v)
        /\ IF v = "err"
           THEN Fail /\ UNCHANGED <<step, next>>
           ELSE IF step < Len(NegotiateOrder)
                THEN /\ step' = step + 1
                     /\ UNCHANGED <<pc, result, next>>
                ELSE \* Ok(state2); line 95
                     /\ step' = 0
                     /\ next' = "Negotiated"
                     /\ pc' = "insert_latest_state"
                     /\ UNCHANGED result
    /\ UNCHANGED <<timelock, txCancel, onchain>>
    /\ UNCHANGED Inside

\* state2.lock_btc(..).await? (lines 114-116)
lock_btc ==
    /\ pc = "lock_btc"
    /\ \E v \in {"ok", "err"} :
        /\ Call("lock_btc", v)
        /\ IF v = "ok"
           THEN /\ onchain' = Done("lock_btc")
                /\ next' = "BtcLocked"
                /\ pc' = "insert_latest_state"
                /\ UNCHANGED result
           ELSE Fail /\ UNCHANGED <<onchain, next>>
    /\ UNCHANGED <<step, timelock, txCancel>>
    /\ UNCHANGED Inside

\* the test with its branches swapped
not_expired_swapped(epoch) == epoch # "None"

\* the test with the cancel window treated like no expiry
not_expired_until_punish(epoch) == epoch # "Punish"

\* `if let ExpiredTimelocks::None = ..` (lines 134, 197, 238)
not_expired(epoch) == epoch = "None"

\* await point of the race arm, by state (lines 137, 200, 241)
AfterEpoch(s) ==
    CASE s \in {"BtcLocked", "XmrLocked"} -> "dial"
      [] s = "EncSigSent"                 -> "select_redeem"

\* the timelock query that opens BtcLocked (current_epoch, line 135),
\* XmrLocked and EncSigSent (expired_timelock, lines 198, 239)
expired_timelock ==
    /\ pc \in {"current_epoch", "expired_timelock"}
    /\ state \in {"BtcLocked", "XmrLocked", "EncSigSent"}
    /\ \E v \in ExpiredTimelocks \cup {"err"} :
        /\ OracleAnswers(Key(pc), v)
        /\ script' = Remember(Key(pc), v)
        /\ log' = Logged(pc, v)
        /\ IF v = "err"
           THEN Fail /\ UNCHANGED <<next, timelock>>
           ELSE /\ timelock' = v
                /\ UNCHANGED result
                /\ IF not_expired(v)
                   THEN /\ pc' = AfterEpoch(state)
                        /\ UNCHANGED next
                   ELSE /\ next' = "CancelTimelockExpired"
                        /\ pc' = "insert_latest_state"
    /\ UNCHANGED <<step, txCancel, onchain>>
    /\ UNCHANGED Inside

\* monero_wallet.inner.block_height().await? (line 149)
block_height ==
    /\ pc = "block_height"
    /\ \E v \in {"ok", "err"} :
        /\ Call("block_height", v)
        /\ IF v = "ok"
           THEN pc' = "select_msg2" /\ UNCHANGED result
           ELSE Fail
    /\ UNCHANGED <<next, step, timelock, txCancel, onchain>>
    /\ UNCHANGED Inside

\* an expiry arm that builds the state being processed again instead of
\* CancelTimelockExpired
ExpiryArm_retries(r) ==
    /\ Race(r, "expiry")
    /\ log' = Logged("wait_for_cancel_timelock_to_expire", "ok")
    /\ timelock' = Expired(timelock)
    /\ next' = state
    /\ pc' = "insert_latest_state"
    /\ UNCHANGED result

\* the cancel_timelock_expires arm of a select! (lines 166, 173, 216, 250)
ExpiryArm(r) ==
    /\ Race(r, "expiry")
    /\ log' = Logged("wait_for_cancel_timelock_to_expire", "ok")
    /\ timelock' = Expired(timelock)
    /\ next' = "CancelTimelockExpired"
    /\ pc' = "insert_latest_state"
    /\ UNCHANGED result

\* outer select! of BtcLocked (lines 151-177): the transfer proof against the
\* cancel timelock
select_msg2 ==
    /\ pc = "select_msg2"
    /\ \/ \E v \in {"ok", "err"} :
            /\ Race("select_msg2", v)
            /\ log' = Logged("recv_message2", v)
            /\ IF v = "ok"
               THEN pc' = "select_xmr_lock" /\ UNCHANGED result
               ELSE Fail
            /\ UNCHANGED <<next, timelock>>
       \/ ExpiryArm("select_msg2")
    /\ UNCHANGED <<step, txCancel, onchain>>
    /\ UNCHANGED Inside

\* BtcLocked with the cancel timelock raced only against the transfer proof:
\* once the proof is in, the XMR lock is awaited alone
select_xmr_lock_no_expiry ==
    /\ pc = "select_xmr_lock"
    /\ \E v \in {"ok", "err"} :
        /\ Race("select_xmr_lock", v)
        /\ log' = Logged("watch_for_lock_xmr", v)
        /\ IF v = "ok"
           THEN /\ next' = "XmrLocked"
                /\ pc' = "insert_latest_state"
                /\ UNCHANGED result
           ELSE Fail /\ UNCHANGED next
        /\ UNCHANGED timelock
    /\ UNCHANGED <<step, txCancel, onchain>>
    /\ UNCHANGED Inside

\* inner select! of BtcLocked (lines 162-170): the XMR lock against a fresh
\* wait for the cancel timelock
select_xmr_lock ==
    /\ pc = "select_xmr_lock"
    /\ \/ \E v \in {"ok", "err"} :
            /\ Race("select_xmr_lock", v)
            /\ log' = Logged("watch_for_lock_xmr", v)
            /\ IF v = "ok"
               THEN /\ next' = "XmrLocked"
                    /\ pc' = "insert_latest_state"
                    /\ UNCHANGED result
               ELSE Fail /\ UNCHANGED next
            /\ UNCHANGED timelock
       \/ ExpiryArm("select_xmr_lock")
    /\ UNCHANGED <<step, txCancel, onchain>>
    /\ UNCHANGED Inside

\* the select! of XmrLocked with the bodies of its two arms exchanged
select_enc_sig_arms_swapped ==
    /\ pc = "select_enc_sig"
    /\ \/ \E v \in {"ok", "err"} :
            /\ Race("select_enc_sig", v)
            /\ log' = Logged("send_message3", v)
            /\ next' = "CancelTimelockExpired"
            /\ pc' = "insert_latest_state"
            /\ UNCHANGED <<result, timelock>>
       \/ /\ Race("select_enc_sig", "expiry")
          /\ log' = Logged("wait_for_cancel_timelock_to_expire", "ok")
          /\ timelock' = Expired(timelock)
          /\ next' = "EncSigSent"
          /\ pc' = "insert_latest_state"
          /\ UNCHANGED result
    /\ UNCHANGED <<step, txCancel, onchain>>
    /\ UNCHANGED Inside

\* select! of XmrLocked (lines 212-219).  The arm is `_ = enc_sig_sent_watcher`:
\* what send_message3 returned is dropped.
select_enc_sig ==
    /\ pc = "select_enc_sig"
    /\ \/ \E v \in {"ok", "err"} :
            /\ Race("select_enc_sig", v)
            /\ log' = Logged("send_message3", v)
            /\ next' = "EncSigSent"
            /\ pc' = "insert_latest_state"
            /\ UNCHANGED <<result, timelock>>
       \/ ExpiryArm("select_enc_sig")
    /\ UNCHANGED <<step, txCancel, onchain>>
    /\ UNCHANGED Inside

\* select! of EncSigSent (lines 246-253)
select_redeem ==
    /\ pc = "select_redeem"
    /\ \/ \E v \in {"ok", "err"} :
            /\ Race("select_redeem", v)
            /\ log' = Logged("watch_for_redeem_btc", v)
            /\ IF v = "ok"
               THEN /\ next' = "BtcRedeemed"
                    /\ pc' = "insert_latest_state"
                    /\ UNCHANGED result
               ELSE Fail /\ UNCHANGED next
            /\ UNCHANGED timelock
       \/ ExpiryArm("select_redeem")
    /\ UNCHANGED <<step, txCancel, onchain>>
    /\ UNCHANGED Inside

\* state.claim_xmr(..).await? (lines 274-278)
claim_xmr ==
    /\ pc = "claim_xmr"
    /\ \E v \in {"ok", "err"} :
        /\ Call("claim_xmr", v)
        /\ IF v = "ok"
           THEN /\ onchain' = Done("claim_xmr")
                /\ next' = "XmrRedeemed"
                /\ pc' = "insert_latest_state"
                /\ UNCHANGED result
           ELSE Fail /\ UNCHANGED <<onchain, next>>
    /\ UNCHANGED <<step, timelock, txCancel>>
    /\ UNCHANGED Inside

\* the cancel transaction submitted whatever the check found
check_for_tx_cancel_always_submits ==
    /\ pc = "check_for_tx_cancel"
    /\ \E v \in {"ok", "err"} :
        /\ v = "ok" => txCancel
        /\ Call("check_for_tx_cancel", v)
        /\ pc' = "submit_tx_cancel"
        /\ UNCHANGED <<next, result>>
    /\ UNCHANGED <<step, timelock, txCancel, onchain>>
    /\ UNCHANGED Inside

\* check_for_tx_cancel(..).await.is_err() (lines 294-298): a transaction that
\* is not on chain is not found; any Err leads to submit_tx_cancel
check_for_tx_cancel ==
    /\ pc = "check_for_tx_cancel"
    /\ \E v \in {"ok", "err"} :
        /\ v = "ok" => txCancel
        /\ Call("check_for_tx_cancel", v)
        /\ IF v = "err"
           THEN pc' = "submit_tx_cancel" /\ UNCHANGED next
           ELSE /\ next' = "BtcCancelled"
                /\ pc' = "insert_latest_state"
    /\ UNCHANGED <<step, result, timelock, txCancel, onchain>>
    /\ UNCHANGED Inside

\* state4.submit_tx_cancel(..).await? (line 299)
submit_tx_cancel ==
    /\ pc = "submit_tx_cancel"
    /\ \E v \in {"ok", "err"} :
        /\ Call("submit_tx_cancel", v)
        /\ IF v = "ok"
           THEN /\ onchain' = Done("submit_tx_cancel")
                /\ txCancel' = TRUE
                /\ next' = "BtcCancelled"
                /\ pc' = "insert_latest_state"
                /\ UNCHANGED result
           ELSE Fail /\ UNCHANGED <<onchain, txCancel, next>>
    /\ UNCHANGED <<step, timelock>>
    /\ UNCHANGED Inside

\* the match without its bail! arm: None is treated like Cancel
cancelled_arm_refund_on_none(epoch) ==
    CASE epoch = "None"   -> "refund_btc"
      [] epoch = "Cancel" -> "refund_btc"
      [] epoch = "Punish" -> "BtcPunished"

\* the match with the forfeiture reported as a safe abort
cancelled_arm_abort_on_punish(epoch) ==
    CASE epoch = "None"   -> "bail"
      [] epoch = "Cancel" -> "refund_btc"
      [] epoch = "Punish" -> "SafelyAborted"

\* the match with a refund attempted in the punish window too
cancelled_arm_refund_on_punish(epoch) ==
    CASE epoch = "None"   -> "bail"
      [] epoch = "Cancel" -> "refund_btc"
      [] epoch = "Punish" -> "refund_btc"

\* the match with the punish window treated as the internal error
cancelled_arm_bail_on_punish(epoch) ==
    CASE epoch = "None"   -> "bail"
      [] epoch = "Cancel" -> "refund_btc"
      [] epoch = "Punish" -> "bail"

\* the match on expired_timelock in BtcCancelled (lines 320-331)
cancelled_arm(epoch) ==
    CASE epoch = "None"   -> "bail"
      [] epoch = "Cancel" -> "refund_btc"
      [] epoch = "Punish" -> "BtcPunished"

btc_cancelled ==
    /\ pc = "expired_timelock"
    /\ state = "BtcCancelled"
    /\ \E v \in ExpiredTimelocks \cup {"err"} :
        /\ OracleAnswers(Key("expired_timelock"), v)
        /\ script' = Remember(Key("expired_timelock"), v)
        /\ log' = Logged("expired_timelock", v)
        /\ IF v = "err"
           THEN Fail /\ UNCHANGED <<next, timelock>>
           ELSE /\ timelock' = v
                /\ CASE cancelled_arm(v) = "bail" ->
                            Fail /\ UNCHANGED next
                     [] cancelled_arm(v) = "refund_btc" ->
                            /\ pc' = "refund_btc"
                            /\ UNCHANGED <<next, result>>
                     [] OTHER ->
                            /\ next' = cancelled_arm(v)
                            /\ pc' = "insert_latest_state"
                            /\ UNCHANGED result
    /\ UNCHANGED <<step, txCancel, onchain>>
    /\ UNCHANGED Inside

\* state.refund_btc(..).await? (lines 325-326)
refund_btc ==
    /\ pc = "refund_btc"
    /\ \E v \in {"ok", "err"} :
        /\ Call("refund_btc", v)
        /\ IF v = "ok"
           THEN /\ onchain' = Done("refund_btc")
                /\ next' = "BtcRefunded"
                /\ pc' = "insert_latest_state"
                /\ UNCHANGED result
           ELSE Fail /\ UNCHANGED <<onchain, next>>
    /\ UNCHANGED <<step, timelock, txCancel>>
    /\ UNCHANGED Inside

\* insert_latest_state with its Err dropped instead of returned: the driver
\* recurses on a state that was not stored
insert_latest_state_ignore_err ==
    /\ pc = "insert_latest_state"
    /\ \E v \in {"ok", "err"} :
        /\ Call("insert_latest_state", v)
        /\ db' = IF v = "ok" THEN Append(db, next) ELSE db
        /\ state' = next
        /\ visited' = Append(visited, next)
        /\ next' = "none"
        /\ pc' = "entry"
        /\ UNCHANGED result
    /\ UNCHANGED <<step, timelock, txCancel, onchain>>
    /\ UNCHANGED <<target, base, crashes, start, mode, refResult>>

\* a driver that does not store the transient CancelTimelockExpired
insert_latest_state_skip_transient ==
    /\ pc = "insert_latest_state"
    /\ \E v \in {"ok", "err"} :
        /\ Call("insert_latest_state", v)
        /\ IF v = "ok"
           THEN /\ db' = IF next = "CancelTimelockExpired"
                         THEN db ELSE Append(db, next)
                /\ state' = next
                /\ visited' = Append(visited, next)
                /\ next' = "none"
                /\ pc' = "entry"
                /\ UNCHANGED result
           ELSE Fail /\ UNCHANGED <<db, state, visited, next>>
    /\ UNCHANGED <<step, timelock, txCancel, onchain>>
    /\ UNCHANGED <<target, base, crashes, start, mode, refResult>>

\* db.insert_latest_state(..).await? and the recursive call that follows
\* (lines 96-108, 117-129, 182-194, 223-235, 258-270, 279-291, 303-316, 333-345)
insert_latest_state ==
    /\ pc = "insert_latest_state"
    /\ \E v \in {"ok", "err"} :
        /\ Call("insert_latest_state", v)
        /\ IF v = "ok"
           THEN /\ db' = Append(db, next)
                /\ state' = next
                /\ visited' = Append(visited, next)
                /\ next' = "none"
                /\ pc' = "entry"
                /\ UNCHANGED result
           ELSE Fail /\ UNCHANGED <<db, state, visited, next>>
    /\ UNCHANGED <<step, timelock, txCancel, onchain>>
    /\ UNCHANGED <<target, base, crashes, start, mode, refResult>>

----------------------------------------------------------------------------
(* Process stop and re-invocation *)

\* the state a caller reads back from the database
LastStored == IF db = <<>> THEN start.state ELSE db[Len(db)]

\* the process stops at an await point: everything not on chain or in the
\* database is lost
crash ==
    /\ pc \notin {"done", "crashed"}
    /\ mode # "ref"
    /\ crashes < MaxCrashes
    /\ crashes' = crashes + 1
    /\ pc' = "crashed"
    /\ UNCHANGED <<state, next, step, target, result, db, visited, log, base,
                   timelock, txCancel, onchain, start, mode, script, refResult>>

\* run_until (lines 45-60) called again with the stored state
run_until ==
    /\ pc = "crashed"
    /\ state' = LastStored
    /\ visited' = <<LastStored>>
    /\ next' = "none"
    /\ step' = 0
    /\ log' = <<>>
    /\ base' = Len(db)
    /\ pc' = "entry"
    /\ UNCHANGED <<target, result, db, timelock, txCancel, onchain, crashes,
                   start, mode, script, refResult>>

Next ==
    \/ run_until_internal
    \/ dial
    \/ negotiate
    \/ lock_btc
    \/ expired_timelock
    \/ block_height
    \/ select_msg2
    \/ select_xmr_lock
    \/ select_enc_sig
    \/ select_redeem
    \/ claim_xmr
    \/ check_for_tx_cancel
    \/ submit_tx_cancel
    \/ btc_cancelled
    \/ refund_btc
    \/ insert_latest_state
    \/ crash
    \/ run_until

Spec == Init /\ [][Next]_vars

----------------------------------------------------------------------------
(* Two runs from the same stored state under the same external events: first
   an uninterrupted run to a terminal state ("ref"), then a run that may be
   stopped and re-invoked ("replay"). *)

restart ==
    /\ mode = "ref"
    /\ pc = "done"
    /\ result = "ok"
    /\ refResult' = state
    /\ mode' = "replay"
    /\ state' = start.state
    /\ timelock' = start.timelock
    /\ txCancel' = start.txCancel
    /\ onchain' = Zero
    /\ db' = <<>>
    /\ base' = 0
    /\ visited' = <<start.state>>
    /\ log' = <<>>
    /\ next' = "none"
    /\ step' = 0
    /\ result' = "none"
    /\ pc' = "entry"
    /\ UNCHANGED <<target, crashes, start, script>>

NextIdem == Next \/ restart

SpecIdem == InitMode("ref") /\ [][NextIdem]_vars

----------------------------------------------------------------------------
(* Derived views *)

Range(q) == {q[i] : i \in 1..Len(q)}

\* what the current driver run appended to the database
Appended == SubSeq(db, base + 1, Len(db))

Terminal == {"BtcRefunded", "BtcPunished", "XmrRedeemed", "SafelyAborted"}


----------------------------------------------------------------------------
(* Claims *)

IsInsert(e) == e.op = "insert_latest_state"

\* C1: a state the driver has moved to is in the database before any
\* collaborator call of the next transition is made: the state being processed
\* is always the last one stored, every call made while processing a state the
\* run moved to comes after the successful append of that state, and a failed
\* append is the last thing the run does (it returns the error, the state and
\* the database stay as they were).
C1_StoredBeforeNextTransition ==
    /\ state = LastStored
    /\ \A i \in 1..Len(log) :
         log[i].st # visited[1] =>
            \E j \in 1..(i - 1) :
               /\ IsInsert(log[j])
               /\ log[j].v = "ok"
               /\ log[j].new = log[i].st
    /\ \A i \in 1..Len(log) :
         (IsInsert(log[i]) /\ log[i].v = "err") =>
            /\ i = Len(log)
            /\ pc = "done"
            /\ result = "err"
            /\ state = log[i].st
            /\ (db = <<>> \/ db[Len(db)] # log[i].new)

\* a run that moved on to a second state, made calls there, and then had an
\* append fail
C1_Witness ==
    /\ Len(visited) >= 2
    /\ \E i \in 1..Len(log) : log[i].st = visited[2] /\ log[i].op = "lock_btc"
    /\ \E i \in 1..Len(log) : IsInsert(log[i]) /\ log[i].v = "err"
    /\ result = "err"

\* C2 as stated: when a driver run has returned, what it appended to the
\* database is the sequence of states it passed through, the one it was
\* started in included.
C2_AppendedIsVisited == pc = "done" => Appended = visited

\* C2, amended: what a driver run appended is the sequence of states it
\* passed through after the state it was started in, each once and in order;
\* the state the run was started in is not appended.
C2_AppendedIsVisitedAfterStart ==
    /\ Len(visited) >= 1
    /\ Appended = Tail(visited)
    /\ \A i, j \in 1..Len(Appended) : i # j => Appended[i] # Appended[j]
    /\ visited[1] \notin Range(Appended)

\* a run that went through both transient states and returned
C2_Witness ==
    /\ pc = "done"
    /\ result = "ok"
    /\ Len(visited) >= 4
    /\ "CancelTimelockExpired" \in Range(Appended)
    /\ "BtcCancelled" \in Range(Appended)

\* C3: whatever the process stops and re-invocations, no on-chain action
\* (BTC lock, cancel transaction, refund, XMR claim) succeeds a second time.
C3_NoDuplicatedAction == \A o \in OnChainOps : onchain[o] <= 1


\* C4: a run that is stopped and re-invoked from the stored state returns the
\* terminal state the uninterrupted run from the same state returned under
\* the same external events.
C4_CrashIdempotent ==
    (mode = "replay" /\ pc = "done") => (result = "ok" /\ state = refResult)

NetworkOps == {"dial", "recv_message2", "send_message3"}
              \cup {NegotiateOrder[i] : i \in 1..Len(NegotiateOrder)}

\* C5: a connect, send or receive that failed is the last thing the run did:
\* the driver returned the error, built no new state and stored nothing.
C5_NetworkErrorReturned ==
    \A i \in 1..Len(log) :
       (log[i].op \in NetworkOps /\ log[i].v = "err") =>
          /\ i = Len(log)
          /\ pc = "done"
          /\ result = "err"
          /\ next = "none"
          /\ state = log[i].st

IsOracle(e) == e.op \in {"current_epoch", "expired_timelock"}

\* C6: CancelTimelockExpired is built only right after the timelock oracle
\* reported Cancel or Punish or after the wait for the cancel timelock
\* completed, with the chain past the cancel timelock; and once the driver has
\* stored CancelTimelockExpired, the oracle never reports None while
\* BtcCancelled is processed.
C6_CancelledOnlyAfterExpiry ==
    /\ (next = "CancelTimelockExpired" /\ pc = "insert_latest_state") =>
          /\ log # <<>>
          /\ timelock # "None"
          /\ LET e == log[Len(log)] IN
                \/ IsOracle(e) /\ e.v \in {"Cancel", "Punish"}
                \/ e.op = "wait_for_cancel_timelock_to_expire" /\ e.v = "ok"
    /\ "CancelTimelockExpired" \in Range(db) =>
          \A i \in 1..Len(log) :
             (log[i].st = "BtcCancelled" /\ IsOracle(log[i])) => log[i].v # "None"

\* BtcCancelled processed, with an answer of the oracle, after the driver went
\* through CancelTimelockExpired by winning an expiry wait
C6_Witness ==
    /\ "CancelTimelockExpired" \in Range(Appended)
    /\ \E i \in 1..Len(log) :
          log[i].op = "wait_for_cancel_timelock_to_expire"
    /\ \E i \in 1..Len(log) :
          /\ log[i].st = "BtcCancelled"
          /\ IsOracle(log[i])
          /\ log[i].v \in {"Cancel", "Punish"}

\* the oracle reported None while BtcCancelled was processed
OracleNoneInCancelled(e) ==
    e.st = "BtcCancelled" /\ IsOracle(e) /\ e.v = "None"

\* C7: when the oracle reports None in BtcCancelled, that query is the last
\* call of the run: the driver returned an error, refund_btc was not called,
\* no new state was built or appended, and the state is still BtcCancelled.
C7_NoneInCancelledIsFatal ==
    \A i \in 1..Len(log) :
       OracleNoneInCancelled(log[i]) =>
          /\ i = Len(log)
          /\ pc = "done"
          /\ result = "err"
          /\ next = "none"
          /\ state = "BtcCancelled"
          /\ LastStored = "BtcCancelled"
          /\ \A j \in 1..Len(log) : log[j].op # "refund_btc"

C7_Witness ==
    /\ log # <<>>
    /\ OracleNoneInCancelled(log[Len(log)])
    /\ pc = "done"

\* the swap has been in BtcLocked or a later state
ReachedLock ==
    \/ start.state \in PostLock
    \/ \E i \in 1..Len(db) : db[i] \in PostLock
    \/ next \in PostLock

\* C8: once the swap has been in BtcLocked or later, the driver is never in
\* SafelyAborted nor builds it, and a state it returns as complete is
\* BtcRefunded, BtcPunished or XmrRedeemed.
C8_NoSafeAbortAfterLock ==
    ReachedLock =>
       /\ state # "SafelyAborted"
       /\ next # "SafelyAborted"
       /\ (pc = "done" /\ result = "ok" /\ target = "is_complete") =>
             state \in {"BtcRefunded", "BtcPunished", "XmrRedeemed"}

\* a run to completion that began before the lock and ended in the forfeiture
C8_Witness ==
    /\ start.state = "Negotiated"
    /\ target = "is_complete"
    /\ pc = "done"
    /\ result = "ok"
    /\ state = "BtcPunished"

\* C9: a driver that returned Ok returned a state that satisfies the target
\* predicate or is one of the four terminal states (so under run, whose target
\* is is_complete, one of the four); every other return is an error.
C9_OkOnlyAtTargetOrTerminal ==
    /\ result = "ok" =>
          /\ pc = "done"
          /\ is_target_state(target, state) \/ state \in Terminal
          /\ target = "is_complete" => state \in Terminal
    /\ pc = "done" => result \in {"ok", "err"}
    /\ (pc = "done" /\ ~(is_target_state(target, state) \/ state \in Terminal))
          => result = "err"

\* run_until with a target that was passed by: the run ended in a terminal
\* state that does not satisfy the target
C9_Witness ==
    /\ pc = "done"
    /\ result = "ok"
    /\ target = "is_xmr_locked"
    /\ state = "BtcRefunded"
    /\ Len(visited) >= 3

\* C10: a driver run invoked with a state that satisfies the target makes no
\* collaborator call, appends nothing, keeps the state, and returns Ok.
C10_TargetAtEntryReturnsAtOnce ==
    is_target_state(target, visited[1]) =>
       /\ log = <<>>
       /\ Appended = <<>>
       /\ next = "none"
       /\ state = visited[1]
       /\ pc \in {"entry", "done", "crashed"}
       /\ pc = "done" => result = "ok"

\* the driver returned a state that is not terminal, in which it was invoked
C10_Witness ==
    /\ pc = "done"
    /\ result = "ok"
    /\ target = "is_encsig_sent"
    /\ state = "EncSigSent"
    /\ visited = <<"EncSigSent">>


----------------------------------------------------------------------------
(* The races *)

RaceStates == {"BtcLocked", "XmrLocked", "EncSigSent"}

\* the state the progress leg of a race leads to (lines 164, 214, 248)
Progress(s) ==
    CASE s = "BtcLocked"  -> "XmrLocked"
      [] s = "XmrLocked"  -> "EncSigSent"
      [] s = "EncSigSent" -> "BtcRedeemed"

ExpiryOp == "wait_for_cancel_timelock_to_expire"

\* progress legs whose Err the driver returns with `?` (lines 154, 164, 248)
ReturnedLegs == {"recv_message2", "watch_for_lock_xmr", "watch_for_redeem_btc"}

ProgressLegs == ReturnedLegs \cup {"send_message3"}

\* log entry e is the completion of a leg that ends the race of its state
\* (a received transfer proof only opens the inner race of BtcLocked)
EndsRace(e) ==
    /\ e.op \in ProgressLegs \cup {ExpiryOp}
    /\ ~(e.op = "recv_message2" /\ e.v = "ok")

\* the new state the driver held right after the i-th call of the run
Built(i) == IF i = Len(log) THEN next ELSE log[i + 1].new

Count(q, x) == Cardinality({j \in 1..Len(q) : q[j] = x})

\* the i-th call is followed by the append of the state built after it, and,
\* if that append succeeded, the run stored that state once
StoredOnce(i) ==
    i < Len(log) =>
       /\ IsInsert(log[i + 1])
       /\ log[i + 1].st = log[i].st
       /\ Cardinality({j \in 1..Len(log) :
                          IsInsert(log[j]) /\ log[j].st = log[i].st}) = 1
       /\ log[i + 1].v = "ok" =>
             /\ Count(Appended, Built(i)) = 1
             /\ Count(visited, log[i].st) = 1
             /\ \E k \in 1..(Len(visited) - 1) :
                   visited[k] = log[i].st /\ visited[k + 1] = Built(i)

\* C11 as stated: every race that ended gave exactly one next state, the
\* progress state or CancelTimelockExpired, and once the run has returned that
\* state was stored.
C11_RaceGivesOneState ==
    \A i \in 1..Len(log) :
       EndsRace(log[i]) =>
          /\ Built(i) \in {Progress(log[i].st), "CancelTimelockExpired"}
          /\ pc = "done" =>
                /\ i < Len(log)
                /\ IsInsert(log[i + 1])
                /\ log[i + 1].v = "ok"

\* C11, amended: a race ended by the expiry leg gives CancelTimelockExpired,
\* one ended by the progress leg gives the progress state, never both; the
\* state is appended once, and only that state.  Neither happens only when a
\* progress leg whose error the driver returns (recv_message2,
\* watch_for_lock_xmr, watch_for_redeem_btc) failed, or when the append
\* failed: the driver then returns the error.
C11_RaceGivesOneStateOrError ==
    \A i \in 1..Len(log) :
       EndsRace(log[i]) =>
          /\ log[i].st \in RaceStates
          /\ IF log[i].op \in ReturnedLegs /\ log[i].v = "err"
             THEN /\ i = Len(log)
                  /\ pc = "done"
                  /\ result = "err"
                  /\ next = "none"
             ELSE /\ log[i].op = ExpiryOp =>
                        Built(i) = "CancelTimelockExpired"
                  /\ log[i].op # ExpiryOp => Built(i) = Progress(log[i].st)
                  /\ StoredOnce(i)
                  /\ (i < Len(log) /\ log[i + 1].v = "err") =>
                        (pc = "done" /\ result = "err" /\ i + 1 = Len(log))

\* the expiry leg won the race of XmrLocked and the state was stored; in
\* another state of the same run the progress leg had won
C11_Witness ==
    /\ \E i \in 1..Len(log) :
          /\ log[i].op = ExpiryOp
          /\ log[i].st = "XmrLocked"
          /\ i < Len(log)
          /\ log[i + 1].v = "ok"
    /\ \E i \in 1..Len(log) :
          log[i].op = "watch_for_lock_xmr" /\ log[i].v = "ok"
    /\ "CancelTimelockExpired" \in Range(Appended)


\* the calls of the run made while processing state s, in order
CallsIn(s) == SelectSeq(log, LAMBDA e : e.st = s /\ ~IsInsert(e))

Ops(q) == [i \in 1..Len(q) |-> q[i].op]

\* the state built while the run processes s, if any
BuiltIn(s) ==
    IF state = s THEN next
    ELSE IF \E i \in 1..Len(log) : log[i].st = s /\ IsInsert(log[i])
         THEN LET i == CHOOSE j \in 1..Len(log) :
                           log[j].st = s /\ IsInsert(log[j])
              IN log[i].new
         ELSE "none"

BuiltInBtcLocked == BuiltIn("BtcLocked")

\* C12: in BtcLocked the expiry of the cancel timelock can win the outer race
\* (before the transfer proof) and the inner race (after the proof, against
\* the watch for the XMR lock).  XmrLocked is built only after the oracle
\* reported None, the connection was ensured, the proof was received and the
\* XMR lock was confirmed, with no expiry leg completed; every other state
\* built in BtcLocked is CancelTimelockExpired.
C12_ExpiryPreemptsAtBothLevels ==
    /\ pc = "select_msg2" =>
          /\ state = "BtcLocked"
          /\ ENABLED (select_msg2 /\ next' = "CancelTimelockExpired")
    /\ pc = "select_xmr_lock" =>
          /\ state = "BtcLocked"
          /\ log[Len(log)].op = "recv_message2"
          /\ log[Len(log)].v = "ok"
          /\ ENABLED (select_xmr_lock /\ next' = "CancelTimelockExpired")
    /\ BuiltInBtcLocked \in {"none", "XmrLocked", "CancelTimelockExpired"}
    /\ BuiltInBtcLocked = "XmrLocked" <=>
          /\ Ops(CallsIn("BtcLocked")) =
                <<"current_epoch", "dial", "block_height", "recv_message2",
                  "watch_for_lock_xmr">>
          /\ \A i \in 1..Len(log) :
                log[i].st = "BtcLocked" /\ ~IsInsert(log[i]) =>
                   log[i].v = IF log[i].op = "current_epoch" THEN "None" ELSE "ok"
    /\ BuiltInBtcLocked = "CancelTimelockExpired" =>
          LET q == CallsIn("BtcLocked") IN
             \/ Ops(q) = <<"current_epoch">> /\ q[1].v \in {"Cancel", "Punish"}
             \/ Ops(q) = <<"current_epoch", "dial", "block_height", ExpiryOp>>
             \/ Ops(q) = <<"current_epoch", "dial", "block_height",
                           "recv_message2", ExpiryOp>>

\* the expiry leg won the inner race: the transfer proof had been received
C12_Witness ==
    /\ state = "BtcLocked"
    /\ pc = "insert_latest_state"
    /\ next = "CancelTimelockExpired"
    /\ Len(log) >= 2
    /\ log[Len(log)].op = ExpiryOp
    /\ log[Len(log) - 1].op = "recv_message2"
    /\ log[Len(log) - 1].v = "ok"


\* a step of negotiate
IsNegotiation(e) == e.op \in Range(NegotiateOrder)

\* C13: a step of the negotiation that fails (announcing the amounts, a send
\* or a receive of a round, the validation of the round-0 or round-1 message)
\* is the last thing the run did: the driver returned the failure, no
\* Negotiated state was built or appended, no BTC lock was broadcast, and the
\* swap is still in Started with nothing stored.
C13_NegotiationFailureLeavesStarted ==
    \A i \in 1..Len(log) :
       IsNegotiation(log[i]) /\ log[i].v = "err" =>
          /\ i = Len(log)
          /\ pc = "done"
          /\ result = "err"
          /\ state = "Started"
          /\ next = "none"
          /\ db = <<>>
          /\ LastStored = "Started"
          /\ visited = <<"Started">>
          /\ onchain["lock_btc"] = 0
          /\ \A j \in 1..Len(log) : log[j].op \notin {"lock_btc", "insert_latest_state"}

\* the round-1 message of the counterparty did not validate
C13_Witness ==
    /\ pc = "done"
    /\ result = "err"
    /\ log # <<>>
    /\ log[Len(log)].op = "state1.receive"
    /\ log[Len(log)].v = "err"

\* the steps of negotiate the run has made
Negotiation == SelectSeq(log, IsNegotiation)

\* C14: the negotiation runs in the order announce amounts, send round 0,
\* receive round 0, validate it against the wallet, send round 1, receive
\* round 1, validate it, send round 2; a step is made only after all steps
\* before it succeeded (and the connection was ensured), and Negotiated is
\* built only after round 2 was sent successfully.
C14_NegotiationIsSequential ==
    LET order == <<"request_amounts", "send_message0", "recv_message0",
                   "state0.receive", "send_message1", "recv_message1",
                   "state1.receive", "send_message2">>
        q == Negotiation
    IN /\ Len(q) <= Len(order)
       /\ \A i \in 1..Len(q) :
             /\ q[i].op = order[i]
             /\ q[i].st = "Started"
             /\ i < Len(q) => q[i].v = "ok"
       /\ q # <<>> => /\ log[1].op = "dial" /\ log[1].v = "ok"
                      /\ \A i \in 1..Len(q) : log[i + 1] = q[i]
       /\ pc = "negotiate" => /\ step = Len(q) + 1
                              /\ next = "none"
       /\ \A i \in 1..Len(log) :
             log[i].st = "Started" /\ IsInsert(log[i]) =>
                /\ log[i].new = "Negotiated"
                /\ i = Len(order) + 2
       /\ (state = "Started" /\ next # "none") =>
             /\ next = "Negotiated"
             /\ Len(q) = Len(order)
             /\ q[Len(q)].v = "ok"

\* round 2 was sent and Negotiated is about to be stored
C14_Witness ==
    /\ state = "Started"
    /\ next = "Negotiated"
    /\ pc = "insert_latest_state"
    /\ log[Len(log)].op = "send_message2"
    /\ log[Len(log)].v = "ok"


\* the states the swap has been in, over all runs: the one it was first
\* started in, then every state stored
History == <<start.state>> \o db

\* consecutive elements of q are related by E
Chain(q, E) == \A i \in 1..(Len(q) - 1) : <<q[i], q[i + 1]>> \in E

NoRepeat(q) == \A i, j \in 1..Len(q) : q[i] = q[j] => i = j

\* C15: the states follow only the edges of the transition table, no state
\* is visited twice, and once CancelTimelockExpired has been reached
\* XmrRedeemed (and everything on the way to it) is out of reach.
C15_OnlyTableEdges ==
    LET edges == {<<"Started", "Negotiated">>, <<"Negotiated", "BtcLocked">>,
                  <<"BtcLocked", "XmrLocked">>,
                  <<"BtcLocked", "CancelTimelockExpired">>,
                  <<"XmrLocked", "EncSigSent">>,
                  <<"XmrLocked", "CancelTimelockExpired">>,
                  <<"EncSigSent", "BtcRedeemed">>,
                  <<"EncSigSent", "CancelTimelockExpired">>,
                  <<"BtcRedeemed", "XmrRedeemed">>,
                  <<"CancelTimelockExpired", "BtcCancelled">>,
                  <<"BtcCancelled", "BtcRefunded">>,
                  <<"BtcCancelled", "BtcPunished">>}
        onward == IF next = "none" THEN <<>> ELSE <<next>>
    IN /\ Chain(visited \o onward, edges)
       /\ Chain(History \o onward, edges)
       /\ NoRepeat(visited \o onward)
       /\ NoRepeat(History \o onward)
       /\ state = visited[Len(visited)]
       /\ state = History[Len(History)]
       /\ \A i \in 1..Len(History) :
             History[i] = "CancelTimelockExpired" =>
                /\ \A j \in i..Len(History) :
                      History[j] \notin {"XmrLocked", "EncSigSent",
                                         "BtcRedeemed", "XmrRedeemed"}
                /\ next \notin {"XmrLocked", "EncSigSent", "BtcRedeemed",
                                "XmrRedeemed"}

\* one run from Started through the cancel path to the refund
C15_Witness ==
    /\ visited = <<"Started", "Negotiated", "BtcLocked", "XmrLocked",
                   "CancelTimelockExpired", "BtcCancelled", "BtcRefunded">>
    /\ pc = "done"
    /\ result = "ok"


\* the run stored the state it built while processing s
StoredFrom(s) ==
    \E i \in 1..Len(log) :
       /\ log[i].st = s
       /\ IsInsert(log[i])
       /\ log[i].v = "ok"
       /\ log[i].new \in Range(Appended)

\* C16: in BtcCancelled with the oracle reporting Punish the driver builds
\* BtcPunished and stores it at once, making no refund and no other on-chain
\* call; with the oracle reporting Cancel, BtcRefunded is built and stored
\* only after refund_btc succeeded.
C16_PunishedWithoutRefund ==
    LET q == CallsIn("BtcCancelled")
        b == BuiltIn("BtcCancelled")
    IN q # <<>> =>
       /\ q[1].op = "expired_timelock"
       /\ q[1].v = "Punish" =>
             /\ Len(q) = 1
             /\ b = "BtcPunished"
             /\ state = "BtcCancelled" => pc \in {"insert_latest_state", "done",
                                                  "crashed"}
             /\ (state = "BtcCancelled" /\ pc = "done") =>
                   (IsInsert(log[Len(log)]) /\ log[Len(log)].v = "err")
             /\ state # "BtcCancelled" =>
                   /\ state = "BtcPunished"
                   /\ StoredFrom("BtcCancelled")
                   /\ db[Len(db)] = "BtcPunished"
       /\ q[1].v = "Cancel" =>
             /\ b \in {"none", "BtcRefunded"}
             /\ b = "BtcRefunded" <=>
                   (Len(q) = 2 /\ q[2].op = "refund_btc" /\ q[2].v = "ok")
             /\ b = "BtcRefunded" => onchain["refund_btc"] >= 1
             /\ state # "BtcCancelled" =>
                   /\ state = "BtcRefunded"
                   /\ b = "BtcRefunded"
                   /\ StoredFrom("BtcCancelled")
       /\ q[1].v \in {"None", "err"} => (b = "none" /\ Len(q) = 1)
       /\ \A i \in 1..Len(q) :
             q[i].op \in OnChainOps =>
                (q[i].op = "refund_btc" /\ q[1].v = "Cancel" /\ i = 2)

\* the punish window was open: BtcPunished is stored and returned
C16_Witness ==
    /\ state = "BtcPunished"
    /\ pc = "done"
    /\ result = "ok"
    /\ Len(log) = 2
    /\ log[1].op = "expired_timelock"
    /\ log[1].v = "Punish"
    /\ log[1].st = "BtcCancelled"
    /\ Appended = <<"BtcPunished">>
    /\ onchain = Zero


\* C17: in BtcLocked, XmrLocked and EncSigSent the first call is the query
\* of the timelock oracle, and when it answers Cancel or Punish the driver
\* builds CancelTimelockExpired with no other call made in that state: no
\* dial, no message sent or received, no watcher or wait started.
C17_ExpiredAtEntrySkipsToCancel ==
    \A s \in RaceStates :
       LET q == CallsIn(s) IN
          q # <<>> =>
             /\ IsOracle(q[1])
             /\ \A i \in 2..Len(q) : ~IsOracle(q[i])
             /\ q[1].v \in {"Cancel", "Punish"} =>
                   /\ Len(q) = 1
                   /\ BuiltIn(s) = "CancelTimelockExpired"
                   /\ state = s => pc \in {"insert_latest_state", "done",
                                           "crashed"}
             /\ (q[1].v = "None" /\ s # "EncSigSent" /\ Len(q) > 1) =>
                   q[2].op = "dial"

\* the timelock had expired when XmrLocked was entered
C17_Witness ==
    /\ state = "XmrLocked"
    /\ pc = "insert_latest_state"
    /\ next = "CancelTimelockExpired"
    /\ log # <<>>
    /\ log[Len(log)].op = "expired_timelock"
    /\ log[Len(log)].v = "Cancel"
    /\ log[Len(log)].st = "XmrLocked"


\* C18: lock_btc is called only in Negotiated and only as the call that
\* follows a successful dial of the same step; a dial that fails in
\* Negotiated ends the run with the error, with no lock_btc call, no new
\* state built and nothing appended in that step.
C18_LockOnlyAfterDial ==
    /\ \A i \in 1..Len(log) :
          log[i].op = "lock_btc" =>
             /\ log[i].st = "Negotiated"
             /\ i >= 2
             /\ log[i - 1].op = "dial"
             /\ log[i - 1].v = "ok"
             /\ log[i - 1].st = "Negotiated"
    /\ pc = "lock_btc" => /\ state = "Negotiated"
                          /\ log[Len(log)].op = "dial"
                          /\ log[Len(log)].v = "ok"
    /\ \A i \in 1..Len(log) :
          (log[i].op = "dial" /\ log[i].v = "err" /\ log[i].st = "Negotiated") =>
             /\ i = Len(log)
             /\ pc = "done"
             /\ result = "err"
             /\ state = "Negotiated"
             /\ next = "none"
             /\ LastStored = "Negotiated"
             /\ "BtcLocked" \notin Range(db)
             /\ \A j \in 1..Len(log) :
                   /\ log[j].op # "lock_btc"
                   /\ ~(IsInsert(log[j]) /\ log[j].st = "Negotiated")

\* the connection could not be ensured after Negotiated had been stored
C18_Witness ==
    /\ visited = <<"Started", "Negotiated">>
    /\ db = <<"Negotiated">>
    /\ pc = "done"
    /\ result = "err"
    /\ log[Len(log)].op = "dial"
    /\ log[Len(log)].v = "err"
    /\ onchain["lock_btc"] = 0


\* C19: in CancelTimelockExpired the first call is the check for the cancel
\* transaction; submit_tx_cancel is called only after that check did not find
\* one; BtcCancelled is built and stored both when the check found the
\* transaction and when the broadcast succeeded; a broadcast that fails ends
\* the run with the error and BtcCancelled is neither built nor stored.
C19_CheckBeforeCancel ==
    LET q == CallsIn("CancelTimelockExpired")
        b == BuiltIn("CancelTimelockExpired")
    IN q # <<>> =>
       /\ q[1].op = "check_for_tx_cancel"
       /\ Len(q) <= 2
       /\ Len(q) = 2 => /\ q[2].op = "submit_tx_cancel"
                        /\ q[1].v = "err"
       /\ q[1].v = "ok" => Len(q) = 1
       /\ b \in {"none", "BtcCancelled"}
       /\ b = "BtcCancelled" <=> q[Len(q)].v = "ok"
       /\ b = "BtcCancelled" => txCancel
       /\ (state = "CancelTimelockExpired" /\ b = "BtcCancelled") =>
             pc \in {"insert_latest_state", "done", "crashed"}
       /\ state # "CancelTimelockExpired" =>
             /\ b = "BtcCancelled"
             /\ StoredFrom("CancelTimelockExpired")
       /\ (Len(q) = 2 /\ q[2].v = "err") =>
             /\ pc = "done"
             /\ result = "err"
             /\ state = "CancelTimelockExpired"
             /\ log[Len(log)] = q[2]
             /\ "BtcCancelled" \notin Range(db)
             /\ LastStored = "CancelTimelockExpired"

\* a run that was stopped after the broadcast and before the append: the
\* next run finds the transaction, broadcasts nothing and stores BtcCancelled
C19_Witness ==
    /\ onchain["submit_tx_cancel"] = 1
    /\ log # <<>>
    /\ log[1].op = "check_for_tx_cancel"
    /\ log[1].v = "ok"
    /\ Len(log) >= 2
    /\ IsInsert(log[2])
    /\ log[2].v = "ok"
    /\ db[Len(db)] = "BtcCancelled"
    /\ state = "BtcCancelled"


----------------------------------------------------------------------------
(* One uninterrupted run of `run` from a state with the BTC locked *)

\* run (lines 41-43): run_until with is_complete as the target, here on a
\* swap that has locked its BTC
InitLive ==
    /\ InitMode("single")
    /\ state \in PostLock
    /\ target = "is_complete"

\* an await outside a select!: the call returns
AwaitStep ==
    \/ run_until_internal
    \/ dial
    \/ expired_timelock
    \/ block_height
    \/ claim_xmr
    \/ check_for_tx_cancel
    \/ submit_tx_cancel
    \/ btc_cancelled
    \/ refund_btc
    \/ insert_latest_state

\* a select!: one of its legs completes
SelectStep ==
    \/ select_msg2
    \/ select_xmr_lock
    \/ select_enc_sig
    \/ select_redeem

NextLive == AwaitStep \/ SelectStep

\* The executor keeps polling the driver's future: a call that can return
\* does return, and a select! whose progress leg stays pending is ended by
\* its expiry leg once the chain is past the cancel timelock.
SpecLive ==
    /\ InitLive
    /\ [][NextLive]_vars
    /\ WF_vars(AwaitStep)
    /\ WF_vars(SelectStep)

\* no collaborator call of the run failed; check_for_tx_cancel not finding
\* the transaction is an answer, not a failure
NoCallFailed ==
    \A i \in 1..Len(log) :
       log[i].v = "err" => log[i].op = "check_for_tx_cancel"

\* the run returned one of the three terminal states with the BTC locked
Returned ==
    /\ pc = "done"
    /\ result = "ok"
    /\ state \in {"BtcRefunded", "BtcPunished", "XmrRedeemed"}

\* the oracle agreed with the cancel path: no None reported in BtcCancelled
OracleSawExpiry == \A i \in 1..Len(log) : ~OracleNoneInCancelled(log[i])

====
